---- MODULE Spec2Model ----
(***************************************************************************)
(* Model of the scene/timing core of the video workflow:                   *)
(*   scripts/06_subtitles.py     parser, clock codecs, line splitter,      *)
(*                               subtitle stage                            *)
(*   scripts/04_image_prompts.py scene-count policy, scene redistribution, *)
(*                               visual parser, image-prompt stage         *)
(*   orchestrator.py             the loop over the pipeline steps          *)
(*                                                                         *)
(* Text is modelled at character level: a string is a sequence of          *)
(* one-character strings, a document is a sequence of lines.  Seconds      *)
(* values that the code holds in floats are exact rationals [n, d] here    *)
(* (binary rounding of the float operations is not modelled).              *)
(***************************************************************************)
EXTENDS Integers, Sequences, FiniteSets, TLC

VARIABLES
    \* ---- split_text_into_lines(text, max_chars) ----
    split_pc,        \* "call" | "done" ("idle" when not exercised)
    text,            \* argument text
    max_chars,       \* argument max_chars
    split_lines,     \* returned list of lines
    \* ---- format_srt_time(seconds) / format_vtt_time(seconds) ----
    seconds,         \* argument seconds, a rational [n, d]
    srt_time,        \* string returned by format_srt_time, <<>> before the call
    vtt_time,        \* string returned by format_vtt_time, <<>> before the call
    \* ---- the script parsers ----
    script,          \* script_content.split('\n'): the lines of script.md
    parse_pc,        \* set of the parsers that have returned
    timing_scenes,   \* list returned by extract_scenes_with_timing
    visuals,         \* list returned by extract_visuals_from_script
    scenes_data,     \* list returned by extract_scene_timing
    \* ---- create_subtitles(script_path, output_dir) ----
    sub_pc,          \* "start" | "loop" | "done" | "failed" (an exception left the stage)
    scenes,          \* scenes parsed from the script
    sub_i,           \* number of scenes the for loop has processed
    srt_content,     \* SRT text built so far, as its '\n'-terminated lines
    vtt_content,     \* VTT text built so far, as its '\n'-terminated lines
    out_files,       \* files saved in the output directory: name -> lines
    \* ---- calculate_optimal_scenes / redistribute_scenes ----
    original_scenes, \* argument original_scenes
    target_count,    \* argument target_count
    audio_duration,  \* argument audio_duration, a rational [n, d]
    optimal_scenes,  \* value returned by calculate_optimal_scenes, 0 before the call
    alloc_pc,        \* "call" | "returned" | "raised"
    new_scenes,      \* list returned by redistribute_scenes
    same_list,       \* TRUE when the returned list is the argument object itself
    \* ---- generate_image_prompts(script_path, output_dir) ----
    prompts_pc,      \* "start" | "redistribute" | "loop" | "done" | "failed"
    audio_exists,    \* audio/narration.wav is in the output directory
    optimized_prompts, \* list of the prompt records built so far
    \* ---- VideoOrchestrator.execute_pipeline(skip_steps) ----
    orch_pc,         \* "loop" | "returned"
    skip_steps,      \* argument skip_steps, a set of step numbers
    step_pos,        \* number of entries of STEPS the for loop has taken
    started,         \* scripts run_step has launched, in order
    outcomes,        \* how each launched script ended, in order
    results,         \* self.results: status and the etapas recorded
    results_file,    \* pipeline_results.json: every content saved, in order
    orch_result,     \* value execute_pipeline returned ("" before it returns)
    \* ---- the image stage: generate_images_lowmem / generate_images ----
    img_pc,          \* "idle" | "start" | "loop" | "exited" | "killed"
    img_variant,     \* "lowmem" (05_generate_images_lowmem.py) | "standard"
    cuda_available,  \* torch.cuda.is_available()
    model_loads,     \* loading the Stable Diffusion model succeeds
    prompts_readable, \* image_prompts.json loads and has the key "cenas"
    cenas,           \* the scene numbers listed in image_prompts.json
    scene_outcomes,  \* how the iteration of every scene taken so far ended
    attempted,       \* scene numbers whose generation was attempted, in order
    error_log,       \* scene numbers of the failures logged, in order
    images,          \* scene numbers whose image file was written completely
    img_exit         \* exit status of the stage: "" while it runs, "0" or "1"

splitVars == <<split_pc, text, max_chars, split_lines>>
codecVars == <<seconds, srt_time, vtt_time>>
parseVars == <<parse_pc, timing_scenes, visuals, scenes_data>>
subVars == <<sub_pc, scenes, sub_i, srt_content, vtt_content>>
allocVars == <<original_scenes, target_count, audio_duration, optimal_scenes,
               alloc_pc, new_scenes, same_list>>
promptVars == <<prompts_pc, audio_exists, optimized_prompts>>
orchVars == <<orch_pc, skip_steps, step_pos, started, outcomes, results,
              results_file, orch_result>>
imgVars == <<img_pc, img_variant, cuda_available, model_loads, prompts_readable,
             cenas, scene_outcomes, attempted, error_log, images, img_exit>>

vars == <<split_pc, text, max_chars, split_lines, seconds, srt_time, vtt_time,
          script, parse_pc, timing_scenes, visuals, scenes_data,
          sub_pc, scenes, sub_i, srt_content, vtt_content, out_files,
          original_scenes, target_count, audio_duration, optimal_scenes,
          alloc_pc, new_scenes, same_list,
          prompts_pc, audio_exists, optimized_prompts,
          orch_pc, skip_steps, step_pos, started, outcomes, results,
          results_file, orch_result,
          img_pc, img_variant, cuda_available, model_loads, prompts_readable,
          cenas, scene_outcomes, attempted, error_log, images, img_exit>>

----------------------------------------------------------------------------
(* Bounds of the model *)

MaxTextLen == 8      \* longest text given to split_text_into_lines alone
MaxWidth == 4        \* largest max_chars given to split_text_into_lines alone
MaxDen == 3          \* largest denominator of the fractional seconds given to the codecs
MaxScriptLines == 4  \* longest script given to the parsers alone
MaxScenes == 2       \* most scene blocks in a script given to create_subtitles
MaxOriginal == 3     \* longest original scene list given to redistribute_scenes
MaxTarget == 4       \* largest target_count given to redistribute_scenes
MaxStageBlocks == 2  \* most blocks in a script given to both parsing stages
MaxCenas == 3        \* most scenes listed in image_prompts.json

----------------------------------------------------------------------------
(* Program constants *)

DefaultMaxChars == 42    \* max_chars default of split_text_into_lines

----------------------------------------------------------------------------
(* Generic helpers for Python built-ins *)

SP == " "

\* the sequences over S of length 0..n
SeqsUpTo(S, n) == UNION { [1..k -> S] : k \in 0..n }

\* "".join(ss)
RECURSIVE Concat(_)
Concat(ss) == IF ss = <<>> THEN <<>> ELSE Head(ss) \o Concat(Tail(ss))

\* the k-th smallest element of a finite set of integers
KthOf(S, k) == CHOOSE p \in S : Cardinality({ q \in S : q <= p }) = k

\* str.split(): the maximal runs of non-whitespace characters, in order
str_split(s) ==
    LET starts == { p \in 1..Len(s) : s[p] # SP /\ (p = 1 \/ s[p - 1] = SP) }
        ends   == { p \in 1..Len(s) : s[p] # SP /\ (p = Len(s) \/ s[p + 1] = SP) }
    IN  [ k \in 1..Cardinality(starts) |-> SubSeq(s, KthOf(starts, k), KthOf(ends, k)) ]

DigitChars == <<"0", "1", "2", "3", "4", "5", "6", "7", "8", "9">>

IsDigit(c) == c \in {DigitChars[k] : k \in 1..10}

\* str(n) for n >= 0: the decimal digits of n
RECURSIVE Digits(_)
Digits(n) == IF n < 10 THEN <<DigitChars[n + 1]>>
             ELSE Append(Digits(n \div 10), DigitChars[(n % 10) + 1])

\* the format specification {n:0<w>d}: at least w characters, zero padded,
\* a minus sign counting as one of them
RECURSIVE ZeroPad(_, _)
ZeroPad(ds, w) == IF Len(ds) >= w THEN ds ELSE ZeroPad(<<"0">> \o ds, w)

FormatD(n, w) == IF n >= 0 THEN ZeroPad(Digits(n), w)
                 ELSE <<"-">> \o ZeroPad(Digits(-n), w - 1)

\* int(x), float(x) of a digit string
DigitValue(c) == CHOOSE k \in 0..9 : DigitChars[k + 1] = c

RECURSIVE IntOf(_)
IntOf(ds) == IF ds = <<>> THEN 0
             ELSE 10 * IntOf(SubSeq(ds, 1, Len(ds) - 1)) + DigitValue(ds[Len(ds)])

\* s.startswith(lit) from position p (1-based) on
LitAt(s, p, lit) ==
    /\ p + Len(lit) - 1 <= Len(s)
    /\ \A k \in 1..Len(lit) : s[p + k - 1] = lit[k]

startswith(s, lit) == LitAt(s, 1, lit)

\* s.replace(lit, ''): every non-overlapping occurrence removed, left to right
RECURSIVE RemoveAll(_, _)
RemoveAll(s, lit) ==
    LET hits == { p \in 1..Len(s) : LitAt(s, p, lit) }
    IN  IF hits = {} THEN s
        ELSE LET p == KthOf(hits, 1)
             IN  SubSeq(s, 1, p - 1) \o RemoveAll(SubSeq(s, p + Len(lit), Len(s)), lit)

\* s.strip()
RECURSIVE strip(_)
strip(s) ==
    IF s = <<>> THEN s
    ELSE IF Head(s) = SP THEN strip(Tail(s))
    ELSE IF s[Len(s)] = SP THEN strip(SubSeq(s, 1, Len(s) - 1))
    ELSE s

\* length of the maximal run of digits of s that starts at position p
RECURSIVE DigitRun(_, _)
DigitRun(s, p) ==
    IF p <= Len(s) /\ IsDigit(s[p]) THEN 1 + DigitRun(s, p + 1) ELSE 0

\* rationals standing for float seconds
Rat(n, d) == [n |-> n, d |-> d]
RatOfInt(k) == Rat(k, 1)

\* int(x) of a float: truncation toward zero
IntTrunc(q) == IF q.n >= 0 THEN q.n \div q.d ELSE -((-q.n) \div q.d)

\* str(n) of an int
Str(n) == IF n >= 0 THEN Digits(n) ELSE <<"-">> \o Digits(-n)

Min(a, b) == IF a <= b THEN a ELSE b
Max(a, b) == IF a >= b THEN a ELSE b

----------------------------------------------------------------------------
(* The scene heading pattern and the labels shared by the parsers *)

CenaPrefix == <<"#", "#", " ", "C", "E", "N", "A", " ">>
NarracaoLabel == <<"*", "*", "N", "a", "r", "r", "a", "ç", "ã", "o", ":", "*", "*">>
VisualLabel == <<"*", "*", "V", "i", "s", "u", "a", "l", ":", "*", "*">>

NoMatch == [ok |-> FALSE, g1 |-> <<>>, g2 |-> <<>>, g3 |-> <<>>]

\* a match of  ## CENA (\d+) \((\d+)-(\d+)s\)  that starts at position p.
\* Every \d+ is followed by a non-digit literal, so only the maximal digit
\* run can match.
HeadingMatchAt(line, p) ==
    LET a  == p + Len(CenaPrefix)
        n1 == DigitRun(line, a)
        b  == a + n1 + 2
        n2 == DigitRun(line, b)
        c  == b + n2 + 1
        n3 == DigitRun(line, c)
    IN  IF /\ LitAt(line, p, CenaPrefix)
           /\ n1 >= 1 /\ LitAt(line, a + n1, <<" ", "(">>)
           /\ n2 >= 1 /\ LitAt(line, b + n2, <<"-">>)
           /\ n3 >= 1 /\ LitAt(line, c + n3, <<"s", ")">>)
        THEN [ok |-> TRUE, g1 |-> SubSeq(line, a, a + n1 - 1),
              g2 |-> SubSeq(line, b, b + n2 - 1), g3 |-> SubSeq(line, c, c + n3 - 1)]
        ELSE NoMatch

\* re.search(pattern, line): the leftmost match, or no match
HeadingSearch(line) ==
    LET hits == { p \in 1..Len(line) : HeadingMatchAt(line, p).ok }
    IN  IF hits = {} THEN NoMatch
        ELSE HeadingMatchAt(line, KthOf(hits, 1))

----------------------------------------------------------------------------
(* extract_scenes_with_timing: 06_subtitles.py *)

\* the loop over the lines; current_scene is <<>> for None, <<scene>> otherwise
RECURSIVE TimingLoop(_, _, _)
TimingLoop(lines, done, current_scene) ==
    IF lines = <<>> THEN <<done, current_scene>>
    ELSE LET line == Head(lines)
             match == HeadingSearch(line)
             scenes1 == IF match.ok /\ current_scene # <<>>
                        THEN Append(done, current_scene[1]) ELSE done
             cur1 == IF match.ok
                     THEN <<[numero |-> IntOf(match.g1),
                             start_seconds |-> IntOf(match.g2),
                             end_seconds |-> IntOf(match.g3),
                             naracao |-> <<>>]>>
                     ELSE current_scene
             cur2 == IF startswith(line, NarracaoLabel) /\ cur1 # <<>>
                     THEN <<[cur1[1] EXCEPT !.naracao = strip(RemoveAll(line, NarracaoLabel))]>>
                     ELSE cur1
         IN  TimingLoop(Tail(lines), scenes1, cur2)

\* (variant: the scene open at the end of input is lost)
FlushNever(done, current_scene) == done

\* the flush after the loop: the scene no later heading closed
FlushLast(done, current_scene) ==
    IF current_scene # <<>> THEN Append(done, current_scene[1]) ELSE done

extract_scenes_with_timing(lines) ==
    LET r == TimingLoop(lines, <<>>, <<>>) IN FlushLast(r[1], r[2])

----------------------------------------------------------------------------
(* extract_scene_timing: 03_voice.py *)

\* (variant: the narration kept with the blanks around it)
VoiceNarracaoUnstripped(line) == RemoveAll(line, NarracaoLabel)

\* line.replace('**Narração:**', '').strip()
VoiceNarracao(line) == strip(RemoveAll(line, NarracaoLabel))

\* current_scene is the record appended last: a narration line updates the
\* last element of scenes_data
RECURSIVE VoiceLoop(_, _)
VoiceLoop(lines, data) ==
    IF lines = <<>> THEN data
    ELSE LET line == Head(lines)
             match == HeadingSearch(line)
             d1 == IF match.ok
                   THEN Append(data, [numero |-> IntOf(match.g1),
                                      start |-> IntOf(match.g2),
                                      end |-> IntOf(match.g3),
                                      naracao |-> <<>>])
                   ELSE data
             d2 == IF startswith(line, NarracaoLabel) /\ d1 # <<>>
                   THEN [d1 EXCEPT ![Len(d1)].naracao = VoiceNarracao(line)]
                   ELSE d1
         IN  VoiceLoop(Tail(lines), d2)

extract_scene_timing(lines) == VoiceLoop(lines, <<>>)

----------------------------------------------------------------------------
(* extract_visuals_from_script: 04_image_prompts.py *)

\* (variant: the label lines update the first record)
FirstSceneIdx(vis) == 1

\* the position in visuals of the record current_scene refers to: the one
\* appended last
CurrentSceneIdx(vis) == Len(vis)

\* current_scene is the record appended last: the label lines update it in
\* place, that is, the last element of visuals
RECURSIVE VisualsLoop(_, _)
VisualsLoop(lines, vis) ==
    IF lines = <<>> THEN vis
    ELSE LET line == Head(lines)
             match == HeadingSearch(line)
             v1 == IF match.ok
                   THEN Append(vis, [numero |-> IntOf(match.g1),
                                     timing |-> match.g2 \o <<"-">> \o match.g3 \o <<"s">>,
                                     naracao |-> <<>>,
                                     visual |-> <<>>])
                   ELSE vis
             v2 == IF startswith(line, NarracaoLabel) /\ v1 # <<>>
                   THEN [v1 EXCEPT ![CurrentSceneIdx(v1)].naracao = strip(RemoveAll(line, NarracaoLabel))]
                   ELSE v1
             v3 == IF startswith(line, VisualLabel) /\ v2 # <<>>
                   THEN [v2 EXCEPT ![CurrentSceneIdx(v2)].visual = strip(RemoveAll(line, VisualLabel))]
                   ELSE v2
         IN  VisualsLoop(Tail(lines), v3)

extract_visuals_from_script(lines) == VisualsLoop(lines, <<>>)

----------------------------------------------------------------------------
(* calculate_optimal_scenes: 04_image_prompts.py *)

\* (variant: the threshold itself falls in the next branch)
AtMostStrict(q, limit) == q.n < limit * q.d

\* audio_duration <= limit
AtMost(q, limit) == q.n <= limit * q.d

\* int(audio_duration / per): audio_duration is positive where this is used
ScenesPer(q, per) == IntTrunc(Rat(q.n, q.d * per))

calculate_optimal_scenes(q) ==
    IF AtMost(q, 30) THEN 2
    ELSE IF AtMost(q, 60) THEN Max(3, ScenesPer(q, 15))
    ELSE IF AtMost(q, 120) THEN Max(5, ScenesPer(q, 12))
    ELSE Max(8, ScenesPer(q, 10))

----------------------------------------------------------------------------
(* redistribute_scenes: 04_image_prompts.py *)

\* (variant: the list is always rebuilt)
IdentityCaseNever(original, k) == FALSE

\* if len(original_scenes) == target_count: return original_scenes
IdentityCase(original, k) == Len(original) = k

\* (variant: the originals are reused cyclically)
BaseIdxCyclic(i, len) == i % len

\* base_idx = min(i, len(original_scenes) - 1), 0-based
BaseIdx(i, len) == Min(i, len - 1)

\* (variant: the boundary rounded to the nearest second)
BoundaryRounded(i, q, k) == IntTrunc(Rat(2 * i * q.n + q.d * k, 2 * q.d * k))

\* int(i * time_per_scene) with time_per_scene = audio_duration / target_count
Boundary(i, q, k) == IntTrunc(Rat(i * q.n, q.d * k))

\* the scene built by iteration i (0-based) of the loop
NewScene(i, original, k, q) ==
    LET base_scene == original[BaseIdx(i, Len(original)) + 1]
    IN  [numero |-> i + 1,
         timing |-> Str(Boundary(i, q, k)) \o <<"-">> \o Str(Boundary(i + 1, q, k)) \o <<"s">>,
         naracao |-> base_scene.naracao,
         visual |-> base_scene.visual,
         duracao |-> IntTrunc(Rat(q.n, q.d * k))]

\* (variant: the loop renumbers the original records in place)
OriginalsRenumbered(original, k) ==
    [i \in 1..Len(original) |-> [original[i] EXCEPT !.numero = i + k]]

\* the argument list after the loop: the loop reads original_scenes and
\* base_scene and assigns to neither, every new_scene is a new dict
OriginalsAfter(original, k) == original

\* the exception the call ends with, "" when it returns: the division by
\* target_count = 0, the index -1 into an empty original list
RedistributeRaises(original, k, q) ==
    IF IdentityCase(original, k) THEN ""
    ELSE IF k = 0 THEN "ZeroDivisionError"
    ELSE IF k > 0 /\ original = <<>> THEN "IndexError"
    ELSE ""

\* range(target_count) is empty for target_count < 0
redistribute_scenes(original, k, q) ==
    IF IdentityCase(original, k) THEN original
    ELSE [i \in 1..k |-> NewScene(i - 1, original, k, q)]

----------------------------------------------------------------------------
(* split_text_into_lines: 06_subtitles.py *)

\* (variant: one character kept free at the end of the line)
WordFitsEager(current_line, word, width) ==
    Len(current_line) + Len(word) + 2 <= width

\* (variant: the separating space not counted)
WordFitsOffByOne(current_line, word, width) ==
    Len(current_line) + Len(word) <= width

\* the test of the loop body: does the word still fit on the current line
WordFits(current_line, word, width) ==
    Len(current_line) + Len(word) + 1 <= width

\* the for loop over the words, then the final flush of current_line
RECURSIVE SplitLoop(_, _, _, _)
SplitLoop(words, lines, current_line, width) ==
    IF words = <<>>
    THEN IF current_line # <<>> THEN Append(lines, current_line) ELSE lines
    ELSE LET word == Head(words) IN
         IF WordFits(current_line, word, width)
         THEN SplitLoop(Tail(words), lines,
                        IF current_line # <<>>
                        THEN current_line \o <<SP>> \o word
                        ELSE word,
                        width)
         ELSE SplitLoop(Tail(words),
                        IF current_line # <<>> THEN Append(lines, current_line) ELSE lines,
                        word, width)

split_text_into_lines(t, width) == SplitLoop(str_split(t), <<>>, <<>>, width)

----------------------------------------------------------------------------
(* format_srt_time / format_vtt_time: 06_subtitles.py *)

\* hours = int(seconds // 3600)
Hours(q) == q.n \div (3600 * q.d)

\* minutes = int((seconds % 3600) // 60)
Minutes(q) == (q.n % (3600 * q.d)) \div (60 * q.d)

\* secs = int(seconds % 60)
Secs(q) == (q.n % (60 * q.d)) \div q.d

\* (variant: the remainder rounded to the nearest millisecond)
MillisRounded(q) == (2 * (q.n % q.d) * 1000 + q.d) \div (2 * q.d)

\* millis = int((seconds % 1) * 1000)
Millis(q) == ((q.n % q.d) * 1000) \div q.d

ClockString(q, sep) ==
    FormatD(Hours(q), 2) \o <<":">> \o FormatD(Minutes(q), 2) \o <<":">>
        \o FormatD(Secs(q), 2) \o <<sep>> \o FormatD(Millis(q), 3)

format_srt_time(q) == ClockString(q, ",")

\* (variant: the VTT time written with the SRT separator)
FormatVttComma(q) == ClockString(q, ",")

format_vtt_time(q) == ClockString(q, ".")

----------------------------------------------------------------------------
(* create_subtitles: 06_subtitles.py *)

WebVtt == <<"W", "E", "B", "V", "T", "T">>
Arrow == <<" ", "-", "-", ">", " ">>

\* (variant: the guard dropped)
HasLinesUnguarded(lines) == TRUE

\* the guard  if len(lines) > 0
HasLines(lines) == Len(lines) > 0

\* (variant: time_per_line computed with the integer division //)
LineTimeFloorDiv(start_sec, total_duration, n, j) ==
    RatOfInt(start_sec + j * (total_duration \div n))

\* start_sec + (j * time_per_line) with time_per_line = total_duration / n
LineTime(start_sec, total_duration, n, j) ==
    Rat(start_sec * n + j * total_duration, n)

\* (variant: the lines of a scene numbered from the scene position on)
CueNumberBySum(i, j) == i + j

\* the number written above a cue: i * 10 + j
CueNumber(i, j) == i * 10 + j

\* the text the inner loop adds to srt_content for scene number i of the
\* enumeration (j is 0-based in the code, the sequence index minus one here)
SrtCues(i, scene, lines) ==
    LET n == Len(lines)
        total_duration == scene.end_seconds - scene.start_seconds
    IN  Concat([ k \in 1..n |->
            << Digits(CueNumber(i, k - 1)),
               format_srt_time(LineTime(scene.start_seconds, total_duration, n, k - 1))
                   \o Arrow
                   \o format_srt_time(LineTime(scene.start_seconds, total_duration, n, k)),
               lines[k],
               <<>> >> ])

VttCues(i, scene, lines) ==
    LET n == Len(lines)
        total_duration == scene.end_seconds - scene.start_seconds
    IN  Concat([ k \in 1..n |->
            << format_vtt_time(LineTime(scene.start_seconds, total_duration, n, k - 1))
                   \o Arrow
                   \o format_vtt_time(LineTime(scene.start_seconds, total_duration, n, k)),
               lines[k],
               <<>> >> ])

\* (variant: an empty scene list accepted)
NoScenesIgnored(parsed) == FALSE

\* the guard  if not scenes: raise ValueError("Script inválido")
NoScenes(parsed) == parsed = <<>>

\* load script.md, parse it, reject an empty scene list, start both documents
SubStart ==
    /\ sub_pc = "start"
    /\ scenes' = extract_scenes_with_timing(script)
    /\ IF NoScenes(scenes')
       THEN /\ sub_pc' = "failed"
            /\ UNCHANGED <<srt_content, vtt_content>>
       ELSE /\ sub_pc' = "loop"
            /\ srt_content' = <<>>
            /\ vtt_content' = <<WebVtt, <<>>>>
    /\ UNCHANGED <<sub_i, out_files, script>>
    /\ UNCHANGED <<imgVars, splitVars, codecVars, parseVars, allocVars, promptVars, orchVars>>

\* the scene list after an iteration of the loop: the body reads
\* scene["naracao"], scene["start_seconds"], scene["end_seconds"] and
\* assigns to locals and to the two documents only
ScenesAfter(parsed, i) == parsed

\* one iteration of  for i, scene in enumerate(scenes, 1).  The division
\* total_duration / len(lines) raises ZeroDivisionError on an empty list.
SubScene ==
    /\ sub_pc = "loop"
    /\ sub_i < Len(scenes)
    /\ LET i == sub_i + 1
           scene == scenes[i]
           lines == split_text_into_lines(scene.naracao, DefaultMaxChars)
       IN  IF HasLines(lines)
           THEN IF Len(lines) = 0
                THEN /\ sub_pc' = "failed"
                     /\ UNCHANGED <<srt_content, vtt_content, sub_i, scenes>>
                ELSE /\ srt_content' = srt_content \o SrtCues(i, scene, lines)
                     /\ vtt_content' = vtt_content \o VttCues(i, scene, lines)
                     /\ sub_i' = i
                     /\ scenes' = ScenesAfter(scenes, i)
                     /\ UNCHANGED sub_pc
           ELSE /\ sub_i' = i
                /\ scenes' = ScenesAfter(scenes, i)
                /\ UNCHANGED <<sub_pc, srt_content, vtt_content>>
    /\ UNCHANGED <<out_files, script>>
    /\ UNCHANGED <<imgVars, splitVars, codecVars, parseVars, allocVars, promptVars, orchVars>>

\* files.save_text of both documents
SubSave ==
    /\ sub_pc = "loop"
    /\ sub_i = Len(scenes)
    /\ out_files' = ("subtitles.srt" :> srt_content) @@ ("subtitles.vtt" :> vtt_content)
                        @@ out_files
    /\ sub_pc' = "done"
    /\ UNCHANGED <<scenes, sub_i, srt_content, vtt_content, script>>
    /\ UNCHANGED <<imgVars, splitVars, codecVars, parseVars, allocVars, promptVars, orchVars>>

----------------------------------------------------------------------------
(* generate_image_prompts: 04_image_prompts.py *)

\* the guard  if not original_scenes: raise ValueError("Script inválido")
NoOriginalScenes(parsed) == parsed = <<>>

\* int(scene['timing'].split('-')[1].replace('s', '')) of a timing string
\* "<start>-<end>s"
TimingEndField(t) ==
    LET dash == KthOf({ p \in 1..Len(t) : t[p] = "-" }, 1)
    IN  IntOf(RemoveAll(SubSeq(t, dash + 1, Len(t)), <<"s">>))

\* scene.get('duracao', <end of the timing string>)
DuracaoOf(scene) ==
    IF "duracao" \in DOMAIN scene THEN scene.duracao ELSE TimingEndField(scene.timing)

\* the text ollama.generate returns for a visual description: opaque to the
\* stage, kept distinct per description
Optimized(visual) == <<"o", "p", "t", ":">> \o visual

\* the record appended to optimized_prompts for one scene
PromptRecord(scene) ==
    [numero |-> scene.numero,
     timing |-> scene.timing,
     visual_original |-> scene.visual,
     prompt_otimizado |-> Optimized(scene.visual),
     duracao |-> DuracaoOf(scene)]

\* the audio check, the scene-count policy, the parse of script.md and the
\* rejection of an empty scene list; audio_duration is what
\* get_audio_duration returned
PromptsStart ==
    /\ prompts_pc = "start"
    /\ IF ~audio_exists
       THEN /\ prompts_pc' = "failed"
            /\ UNCHANGED <<optimal_scenes, original_scenes>>
       ELSE /\ optimal_scenes' = calculate_optimal_scenes(audio_duration)
            /\ original_scenes' = extract_visuals_from_script(script)
            /\ prompts_pc' = IF NoOriginalScenes(original_scenes')
                             THEN "failed" ELSE "redistribute"
    /\ UNCHANGED <<audio_exists, optimized_prompts, target_count, audio_duration,
                   alloc_pc, new_scenes, same_list>>
    /\ UNCHANGED <<imgVars, splitVars, codecVars, script, parseVars, subVars, out_files, orchVars>>

\* scenes_visuals = redistribute_scenes(original_scenes, optimal_scenes, audio_duration)
PromptsRedistribute ==
    /\ prompts_pc = "redistribute"
    /\ IF RedistributeRaises(original_scenes, optimal_scenes, audio_duration) # ""
       THEN /\ prompts_pc' = "failed"
            /\ UNCHANGED <<new_scenes, same_list, original_scenes>>
       ELSE /\ prompts_pc' = "loop"
            /\ new_scenes' = redistribute_scenes(original_scenes, optimal_scenes,
                                                 audio_duration)
            /\ same_list' = IdentityCase(original_scenes, optimal_scenes)
            /\ original_scenes' = IF IdentityCase(original_scenes, optimal_scenes)
                                  THEN original_scenes
                                  ELSE OriginalsAfter(original_scenes, optimal_scenes)
    /\ UNCHANGED <<audio_exists, optimized_prompts, target_count,
                   audio_duration, optimal_scenes, alloc_pc>>
    /\ UNCHANGED <<imgVars, splitVars, codecVars, script, parseVars, subVars, out_files, orchVars>>

\* one iteration of  for scene in scenes_visuals: the call of the model
\* server returns a prompt or raises
PromptsScene ==
    /\ prompts_pc = "loop"
    /\ Len(optimized_prompts) < Len(new_scenes)
    /\ \E generated \in BOOLEAN :
           IF generated
           THEN /\ optimized_prompts' =
                       Append(optimized_prompts,
                              PromptRecord(new_scenes[Len(optimized_prompts) + 1]))
                /\ UNCHANGED prompts_pc
           ELSE /\ prompts_pc' = "failed"
                /\ UNCHANGED optimized_prompts
    /\ UNCHANGED <<audio_exists, allocVars>>
    /\ UNCHANGED <<imgVars, splitVars, codecVars, script, parseVars, subVars, out_files, orchVars>>

\* files.save_json("image_prompts.json", image_prompts_data)
PromptsSave ==
    /\ prompts_pc = "loop"
    /\ Len(optimized_prompts) = Len(new_scenes)
    /\ out_files' = ("image_prompts.json" :>
                         [total_scenes |-> Len(optimized_prompts),
                          cenas |-> optimized_prompts]) @@ out_files
    /\ prompts_pc' = "done"
    /\ UNCHANGED <<audio_exists, optimized_prompts, allocVars>>
    /\ UNCHANGED <<imgVars, splitVars, codecVars, script, parseVars, subVars, orchVars>>

----------------------------------------------------------------------------
(* VideoOrchestrator: orchestrator.py *)

\* the class attribute STEPS: number and script of every entry, in order
STEPS ==
    << [num |-> 1, script |-> "scripts/01_plan.py"],
       [num |-> 2, script |-> "scripts/02_script.py"],
       [num |-> 3, script |-> "scripts/03_voice.py"],
       [num |-> 4, script |-> "scripts/04_image_prompts.py"],
       [num |-> 5, script |-> "scripts/05_generate_images_lowmem.py"],
       [num |-> 6, script |-> "scripts/07_compose_video.py"] >>

\* how the subprocess of a step can end: exit status 0, another exit
\* status, subprocess.TimeoutExpired after 3600 s, any other exception
StepOutcomes == {"ok", "nonzero", "timeout", "raises"}

\* the option that carries the output directory
DirFlag(step_num) == IF step_num = 7 THEN "--project" ELSE "--output"

\* (variant: a timeout taken for a success)
RunStepTimeoutPasses(outcome) == outcome \in {"ok", "timeout"}

\* the value run_step returns: True for exit status 0 only
RunStepReturns(outcome) == outcome = "ok"

\* (variant: a finished step left out of the record)
EtapasUnrecorded(etapas, step_num) == etapas

\* self.results["etapas"][step_num] = {...}: the keys of etapas after a
\* step that exited with status 0
EtapasAfter(etapas, step_num) == etapas \cup {step_num}

\* save_results: pipeline_results.json is rewritten with the results; the
\* model keeps every content written, in order
SaveResults(file, res) == Append(file, res)

\* an entry of STEPS whose number is in skip_steps: continue
OrchSkip ==
    /\ orch_pc = "loop"
    /\ step_pos < Len(STEPS)
    /\ STEPS[step_pos + 1].num \in skip_steps
    /\ step_pos' = step_pos + 1
    /\ UNCHANGED <<orch_pc, skip_steps, started, outcomes, results, results_file,
                   orch_result>>
    /\ UNCHANGED <<imgVars, splitVars, codecVars, script, parseVars, subVars, out_files,
                   allocVars, promptVars>>

\* run_step on the next entry, its subprocess ending with outcome; when
\* run_step returns False the pipeline stops: status "erro", save_results,
\* return False
RunStep(outcome) ==
    /\ orch_pc = "loop"
    /\ step_pos < Len(STEPS)
    /\ STEPS[step_pos + 1].num \notin skip_steps
    /\ LET step == STEPS[step_pos + 1] IN
           /\ started' = Append(started, [script |-> step.script,
                                          flag |-> DirFlag(step.num)])
           /\ outcomes' = Append(outcomes, outcome)
           /\ IF RunStepReturns(outcome)
              THEN /\ results' = [results EXCEPT
                                      !.etapas = EtapasAfter(@, step.num)]
                   /\ step_pos' = step_pos + 1
                   /\ UNCHANGED <<orch_pc, results_file, orch_result>>
              ELSE /\ results' = [results EXCEPT !.status = "erro"]
                   /\ results_file' = SaveResults(results_file, results')
                   /\ orch_result' = "False"
                   /\ orch_pc' = "returned"
                   /\ UNCHANGED step_pos
    /\ UNCHANGED skip_steps
    /\ UNCHANGED <<splitVars, codecVars, script, parseVars, subVars, out_files,
                   allocVars, promptVars>>

\* a step whose subprocess the model leaves open: any outcome
OrchRunStep ==
    /\ \E outcome \in StepOutcomes : RunStep(outcome)
    /\ UNCHANGED imgVars

\* after the loop: status "sucesso", save_results, return True
OrchFinish ==
    /\ orch_pc = "loop"
    /\ step_pos = Len(STEPS)
    /\ results' = [results EXCEPT !.status = "sucesso"]
    /\ results_file' = SaveResults(results_file, results')
    /\ orch_result' = "True"
    /\ orch_pc' = "returned"
    /\ UNCHANGED <<skip_steps, step_pos, started, outcomes>>
    /\ UNCHANGED <<imgVars, splitVars, codecVars, script, parseVars, subVars, out_files,
                   allocVars, promptVars>>

----------------------------------------------------------------------------
(* The image stage: 05_generate_images_lowmem.py and 05_generate_images.py *)

\* how one iteration of the low-memory loop can end: the image generated
\* and saved; CUDA out of memory and the 384x384 retry saved; CUDA out of
\* memory and the retry failed too; any other exception
LowmemOutcomes == {"ok", "oom_retry_ok", "oom_retry_fail", "error"}

\* how one iteration of the standard loop can end: generate_image raises
\* on every call, because it uses the name torch, which the module binds
\* only inside _init_pipeline
StandardOutcomes == {"error"}

\* (variant: the retry writes its file even when it fails)
ImageWrittenOnRetryFail(outcome) == outcome # "error"

\* the iterations that reach the save of the image file
ImageWritten(outcome) == outcome \in {"ok", "oom_retry_ok"}

\* the iterations that end in a handler with no image: "Falha total na
\* cena" / "Erro na cena"
SceneFailed(outcome) == outcome \in {"oom_retry_fail", "error"}

\* the exit status of the process for a stage function that returned
\* (TRUE) or let an exception out (FALSE)
ExitStatus(returned) == IF returned THEN "0" ELSE "1"

\* one iteration of  for i, scene in enumerate(prompts_data["cenas"], 1)
SceneStep(outcome) ==
    /\ img_pc = "loop"
    /\ Len(scene_outcomes) < Len(cenas)
    /\ LET numero == cenas[Len(scene_outcomes) + 1] IN
           /\ attempted' = Append(attempted, numero)
           /\ scene_outcomes' = Append(scene_outcomes, outcome)
           /\ images' = IF ImageWritten(outcome) THEN images \cup {numero}
                                                ELSE images
           /\ error_log' = IF SceneFailed(outcome) THEN Append(error_log, numero)
                                                   ELSE error_log
    /\ UNCHANGED <<img_pc, img_variant, cuda_available, model_loads,
                   prompts_readable, cenas, img_exit>>
    /\ UNCHANGED <<splitVars, codecVars, script, parseVars, subVars, out_files,
                   allocVars, promptVars, orchVars>>

\* generate_images_lowmem up to its loop: return without CUDA, the model
\* loaded outside any try, return when the prompts cannot be loaded
ImgStartLowmem ==
    /\ img_pc = "start"
    /\ img_variant = "lowmem"
    /\ IF ~cuda_available
       THEN img_pc' = "exited" /\ img_exit' = ExitStatus(TRUE)
       ELSE IF ~model_loads
       THEN img_pc' = "exited" /\ img_exit' = ExitStatus(FALSE)
       ELSE IF ~prompts_readable
       THEN img_pc' = "exited" /\ img_exit' = ExitStatus(TRUE)
       ELSE img_pc' = "loop" /\ UNCHANGED img_exit
    /\ UNCHANGED <<img_variant, cuda_available, model_loads, prompts_readable,
                   cenas, scene_outcomes, attempted, error_log, images>>
    /\ UNCHANGED <<splitVars, codecVars, script, parseVars, subVars, out_files,
                   allocVars, promptVars, orchVars>>

\* generate_images up to its loop: the generator is built lazily; a failure
\* of load_json is logged by the outer handler and raised again
ImgStartStandard ==
    /\ img_pc = "start"
    /\ img_variant = "standard"
    /\ IF ~prompts_readable
       THEN img_pc' = "exited" /\ img_exit' = ExitStatus(FALSE)
       ELSE img_pc' = "loop" /\ UNCHANGED img_exit
    /\ UNCHANGED <<img_variant, cuda_available, model_loads, prompts_readable,
                   cenas, scene_outcomes, attempted, error_log, images>>
    /\ UNCHANGED <<splitVars, codecVars, script, parseVars, subVars, out_files,
                   allocVars, promptVars, orchVars>>

ImgSceneLowmem ==
    /\ img_variant = "lowmem"
    /\ \E outcome \in LowmemOutcomes : SceneStep(outcome)

ImgSceneStandard ==
    /\ img_variant = "standard"
    /\ \E outcome \in StandardOutcomes : SceneStep(outcome)

\* after the loop the stage function logs a summary and returns
ImgFinish ==
    /\ img_pc = "loop"
    /\ Len(scene_outcomes) = Len(cenas)
    /\ img_pc' = "exited"
    /\ img_exit' = ExitStatus(TRUE)
    /\ UNCHANGED <<img_variant, cuda_available, model_loads, prompts_readable,
                   cenas, scene_outcomes, attempted, error_log, images>>
    /\ UNCHANGED <<splitVars, codecVars, script, parseVars, subVars, out_files,
                   allocVars, promptVars, orchVars>>

----------------------------------------------------------------------------
(* Specification SpecSplit: split_text_into_lines applied to every text    *)
(* over a three-letter alphabet and every width                            *)

TextChars == {SP, "a", "b"}

\* the components a specification does not exercise stay in these states
SplitIdle ==
    /\ split_pc = "idle"
    /\ text = <<>>
    /\ max_chars = DefaultMaxChars
    /\ split_lines = <<>>

CodecIdle ==
    /\ seconds = Rat(0, 1)
    /\ srt_time = <<>>
    /\ vtt_time = <<>>

ScriptIdle == script = <<>>

SubIdle ==
    /\ sub_pc = "idle"
    /\ scenes = <<>>
    /\ sub_i = 0
    /\ srt_content = <<>>
    /\ vtt_content = <<>>
    /\ out_files = <<>>

AllocIdle ==
    /\ original_scenes = <<>>
    /\ target_count = 0
    /\ audio_duration = Rat(0, 1)
    /\ optimal_scenes = 0
    /\ alloc_pc = "idle"
    /\ new_scenes = <<>>
    /\ same_list = FALSE

ParseIdle ==
    /\ parse_pc = {}
    /\ timing_scenes = <<>>
    /\ visuals = <<>>
    /\ scenes_data = <<>>

PromptIdle ==
    /\ prompts_pc = "idle"
    /\ audio_exists = FALSE
    /\ optimized_prompts = <<>>

OrchIdle ==
    /\ orch_pc = "idle"
    /\ skip_steps = {}
    /\ step_pos = 0
    /\ started = <<>>
    /\ outcomes = <<>>
    /\ results = [status |-> "", etapas |-> {}]
    /\ results_file = <<>>
    /\ orch_result = ""

ImgIdle ==
    /\ img_pc = "idle"
    /\ img_variant = "lowmem"
    /\ cuda_available = FALSE
    /\ model_loads = FALSE
    /\ prompts_readable = FALSE
    /\ cenas = <<>>
    /\ scene_outcomes = <<>>
    /\ attempted = <<>>
    /\ error_log = <<>>
    /\ images = {}
    /\ img_exit = ""

SplitInit ==
    /\ split_pc = "call"
    /\ text \in SeqsUpTo(TextChars, MaxTextLen)
    /\ max_chars \in 1..MaxWidth
    /\ split_lines = <<>>

SplitCall ==
    /\ split_pc = "call"
    /\ split_lines' = split_text_into_lines(text, max_chars)
    /\ split_pc' = "done"
    /\ UNCHANGED <<text, max_chars>>
    /\ UNCHANGED <<imgVars, codecVars, script, parseVars, subVars, out_files, allocVars, promptVars, orchVars>>

SplitNext == SplitCall

InitSplit == SplitInit /\ CodecIdle /\ ScriptIdle /\ ParseIdle /\ SubIdle /\ AllocIdle
               /\ PromptIdle /\ OrchIdle /\ ImgIdle

SpecSplit == InitSplit /\ [][SplitNext]_vars

----------------------------------------------------------------------------
(* Specification SpecParse: both parsers applied to every script of up to  *)
(* MaxScriptLines lines drawn from ScriptLines                             *)

\* the text of a well-formed scene heading and of the labeled lines
Heading(n, s, e) ==
    CenaPrefix \o Digits(n) \o <<" ", "(">> \o Digits(s) \o <<"-">> \o Digits(e) \o <<"s", ")">>

NarracaoLine(t) == NarracaoLabel \o t

VisualLine(t) == VisualLabel \o t

\* <<index, start, end>> of the headings of the scripts
HeadingFields == { <<1, 0, 5>>, <<10, 5, 130>> }

WellFormedHeadings == { Heading(f[1], f[2], f[3]) : f \in HeadingFields }

LabeledLines ==
    { NarracaoLine(<<" ", "a", " ", "b">>), NarracaoLine(<<" ", " ">>),
      VisualLine(<<" ", "v">>) }

\* a blank line, and a heading with a colon after the index
OtherLines ==
    { <<>>,
      CenaPrefix \o <<"3", ":", " ", "(", "1", "2", "-", "2", "0", "s", ")">> }

ScriptLines == WellFormedHeadings \cup LabeledLines \cup OtherLines

ParseInit ==
    /\ script \in SeqsUpTo(ScriptLines, MaxScriptLines)
    /\ parse_pc = {}
    /\ timing_scenes = <<>>
    /\ visuals = <<>>
    /\ scenes_data = <<>>

CallExtractScenesWithTiming ==
    /\ "timing" \notin parse_pc
    /\ timing_scenes' = extract_scenes_with_timing(script)
    /\ parse_pc' = parse_pc \cup {"timing"}
    /\ UNCHANGED <<script, visuals, scenes_data>>
    /\ UNCHANGED <<imgVars, splitVars, codecVars, subVars, out_files, allocVars, promptVars, orchVars>>

CallExtractVisuals ==
    /\ "visuals" \notin parse_pc
    /\ visuals' = extract_visuals_from_script(script)
    /\ parse_pc' = parse_pc \cup {"visuals"}
    /\ UNCHANGED <<script, timing_scenes, scenes_data>>
    /\ UNCHANGED <<imgVars, splitVars, codecVars, subVars, out_files, allocVars, promptVars, orchVars>>

CallExtractSceneTiming ==
    /\ "voice" \notin parse_pc
    /\ scenes_data' = extract_scene_timing(script)
    /\ parse_pc' = parse_pc \cup {"voice"}
    /\ UNCHANGED <<script, timing_scenes, visuals>>
    /\ UNCHANGED <<imgVars, splitVars, codecVars, subVars, out_files, allocVars, promptVars, orchVars>>

ParseNext ==
    CallExtractScenesWithTiming \/ CallExtractVisuals \/ CallExtractSceneTiming

InitParse == ParseInit /\ SplitIdle /\ CodecIdle /\ SubIdle /\ AllocIdle
               /\ PromptIdle /\ OrchIdle /\ ImgIdle

SpecParse == InitParse /\ [][ParseNext]_vars

----------------------------------------------------------------------------
\* A script made of well-formed scene blocks only: every line is a
\* well-formed heading, a labeled line or blank
ScriptWellFormed ==
    \A k \in 1..Len(script) :
        script[k] \in WellFormedHeadings \cup LabeledLines \cup {<<>>}

\* the <<index, start, end>> written in the headings, in document order
HeadingsOf(lines) ==
    LET hs == SelectSeq(lines, LAMBDA l : l \in WellFormedHeadings)
    IN  [k \in 1..Len(hs) |->
            CHOOSE f \in HeadingFields : Heading(f[1], f[2], f[3]) = hs[k]]

\* C1: on a script of N well-formed scene blocks each parser returns
\* exactly N records in document order, the k-th with the index, start and
\* end of the k-th heading, the last (unclosed) scene included
C1_ParserScenes ==
    ScriptWellFormed =>
        LET hs == HeadingsOf(script) IN
        /\ "timing" \in parse_pc =>
               /\ Len(timing_scenes) = Len(hs)
               /\ \A k \in 1..Len(hs) :
                      /\ timing_scenes[k].numero = hs[k][1]
                      /\ timing_scenes[k].start_seconds = hs[k][2]
                      /\ timing_scenes[k].end_seconds = hs[k][3]
        /\ "visuals" \in parse_pc =>
               /\ Len(visuals) = Len(hs)
               /\ \A k \in 1..Len(hs) :
                      /\ visuals[k].numero = hs[k][1]
                      /\ visuals[k].timing =
                             Digits(hs[k][2]) \o <<"-">> \o Digits(hs[k][3]) \o <<"s">>

\* both parsers returned two scenes for a script of two blocks whose last
\* line belongs to the second, unclosed scene
C1_Witness ==
    /\ ScriptWellFormed
    /\ parse_pc = {"timing", "visuals"}
    /\ Len(script) = 4
    /\ script[1] \in WellFormedHeadings /\ script[3] \in WellFormedHeadings
    /\ script[1] # script[3]
    /\ script[2] \in LabeledLines /\ script[4] \in LabeledLines
    /\ Len(timing_scenes) = 2 /\ Len(visuals) = 2
    /\ timing_scenes[2].end_seconds = 130

----------------------------------------------------------------------------
(* Specification SpecSub: create_subtitles run on every script of up to    *)
(* MaxScenes scene blocks (a heading and a narration line each)            *)

Word(c, n) == [k \in 1..n |-> c]

\* narration texts as written after the label: nothing, blanks only, one
\* short line, 20+21 characters that fill a line exactly followed by a
\* third word, three and eleven words of 22 characters (one line each)
SubNarrations ==
    { <<>>,
      <<SP, SP>>,
      <<SP, "a", SP, "b">>,
      <<SP>> \o Word("a", 20) \o <<SP, SP>> \o Word("b", 21) \o <<SP>> \o Word("c", 5),
      Concat([k \in 1..3 |-> <<SP>> \o Word("d", 22)]),
      Concat([k \in 1..11 |-> <<SP>> \o Word("e", 22)]) }

SubHeadingFields == { <<1, 0, 5>>, <<2, 5, 12>> }

SubBlocks ==
    { <<Heading(f[1], f[2], f[3]), NarracaoLine(t)>> :
          f \in SubHeadingFields, t \in SubNarrations }

SubScripts == { Concat(bs) : bs \in SeqsUpTo(SubBlocks, MaxScenes) }

SubInit ==
    /\ script \in SubScripts
    /\ sub_pc = "start"
    /\ scenes = <<>>
    /\ sub_i = 0
    /\ srt_content = <<>>
    /\ vtt_content = <<>>
    /\ out_files = <<>>

SubNext == SubStart \/ SubScene \/ SubSave

InitSub == SubInit /\ SplitIdle /\ CodecIdle /\ ParseIdle /\ AllocIdle
               /\ PromptIdle /\ OrchIdle /\ ImgIdle

SpecSub == InitSub /\ [][SubNext]_vars

----------------------------------------------------------------------------
(* Specification SpecAlloc: the scene-count policy and the redistribution  *)
(* applied to every original list, target count and duration below         *)

TextOf(c, k) == <<c>> \o Digits(k)

\* the list extract_visuals_from_script returns for m blocks of 5 seconds
\* with pairwise different texts
OriginalOf(m) ==
    [k \in 1..m |->
        [numero |-> k,
         timing |-> Digits(5 * (k - 1)) \o <<"-">> \o Digits(5 * k) \o <<"s">>,
         naracao |-> TextOf("n", k),
         visual |-> TextOf("v", k)]]

\* durations on both sides of every threshold of the policy, among them
\* 30.0001, 7.5 and 100/3 seconds, and two degenerate ones
Durations ==
    { Rat(-15, 2), Rat(0, 1), Rat(15, 2), Rat(10, 1), Rat(30, 1), Rat(300001, 10000),
      Rat(100, 3), Rat(45, 1), Rat(60, 1), Rat(600001, 10000), Rat(90, 1),
      Rat(120, 1), Rat(1200001, 10000), Rat(125, 1), Rat(200, 1) }

AllocInit ==
    /\ original_scenes \in { OriginalOf(m) : m \in 0..MaxOriginal }
    /\ target_count \in (-1)..MaxTarget
    /\ audio_duration \in Durations
    /\ optimal_scenes = 0
    /\ alloc_pc = "call"
    /\ new_scenes = <<>>
    /\ same_list = FALSE

CallCalculateOptimalScenes ==
    /\ optimal_scenes = 0
    /\ optimal_scenes' = calculate_optimal_scenes(audio_duration)
    /\ UNCHANGED <<original_scenes, target_count, audio_duration, alloc_pc,
                   new_scenes, same_list>>
    /\ UNCHANGED <<imgVars, splitVars, codecVars, script, parseVars, subVars, out_files, promptVars, orchVars>>

CallRedistributeScenes ==
    /\ alloc_pc = "call"
    /\ IF RedistributeRaises(original_scenes, target_count, audio_duration) # ""
       THEN /\ alloc_pc' = "raised"
            /\ UNCHANGED <<new_scenes, same_list, original_scenes>>
       ELSE /\ alloc_pc' = "returned"
            /\ new_scenes' = redistribute_scenes(original_scenes, target_count, audio_duration)
            /\ same_list' = IdentityCase(original_scenes, target_count)
            /\ original_scenes' = IF IdentityCase(original_scenes, target_count)
                                  THEN original_scenes
                                  ELSE OriginalsAfter(original_scenes, target_count)
    /\ UNCHANGED <<target_count, audio_duration, optimal_scenes>>
    /\ UNCHANGED <<imgVars, splitVars, codecVars, script, parseVars, subVars, out_files, promptVars, orchVars>>

AllocNext == CallCalculateOptimalScenes \/ CallRedistributeScenes

InitAlloc == AllocInit /\ SplitIdle /\ CodecIdle /\ ScriptIdle /\ ParseIdle /\ SubIdle
               /\ PromptIdle /\ OrchIdle /\ ImgIdle

SpecAlloc == InitAlloc /\ [][AllocNext]_vars

----------------------------------------------------------------------------
(* Specification SpecCodec: both codecs applied to one seconds value >= 0  *)

\* whole seconds around every field boundary, beyond one day and beyond
\* 99 hours
WholeSeconds == {0, 1, 59, 60, 61, 3599, 3600, 3661, 86399, 86400, 90000, 360000, 363661}

\* fractions k/d of a second, and two fractions next to a millisecond boundary
CodecInputs ==
    { Rat(w * d + k, d) : w \in WholeSeconds, d \in 1..MaxDen, k \in 0..MaxDen } \cup
    { Rat(w * 2000 + k, 2000) : w \in WholeSeconds, k \in {1, 1999} }

CodecInit ==
    /\ seconds \in { q \in CodecInputs : q.n >= 0 }
    /\ srt_time = <<>>
    /\ vtt_time = <<>>

CallFormatSrt ==
    /\ srt_time = <<>>
    /\ srt_time' = format_srt_time(seconds)
    /\ UNCHANGED <<seconds, vtt_time>>
    /\ UNCHANGED <<imgVars, splitVars, script, parseVars, subVars, out_files, allocVars, promptVars, orchVars>>

CallFormatVtt ==
    /\ vtt_time = <<>>
    /\ vtt_time' = format_vtt_time(seconds)
    /\ UNCHANGED <<seconds, srt_time>>
    /\ UNCHANGED <<imgVars, splitVars, script, parseVars, subVars, out_files, allocVars, promptVars, orchVars>>

CodecNext == CallFormatSrt \/ CallFormatVtt

InitCodec == CodecInit /\ SplitIdle /\ ScriptIdle /\ ParseIdle /\ SubIdle /\ AllocIdle
               /\ PromptIdle /\ OrchIdle /\ ImgIdle

SpecCodec == InitCodec /\ [][CodecNext]_vars

----------------------------------------------------------------------------
(* Specification SpecCodecSigned: both codecs applied to one seconds value *)
(* of either sign                                                          *)

\* -1.5 s, a millisecond before zero, an hour before zero
NegativeInputs == { Rat(-3, 2), Rat(-1, 1000), Rat(-3600, 1) }

CodecSignedInit ==
    /\ seconds \in CodecInputs \cup NegativeInputs
    /\ srt_time = <<>>
    /\ vtt_time = <<>>

InitCodecSigned == CodecSignedInit /\ SplitIdle /\ ScriptIdle /\ ParseIdle /\ SubIdle
                       /\ AllocIdle /\ PromptIdle /\ OrchIdle /\ ImgIdle

SpecCodecSigned == InitCodecSigned /\ [][CodecNext]_vars

----------------------------------------------------------------------------
(* Specification SpecOrch: execute_pipeline with every skip list over the  *)
(* step numbers 1-7 and every outcome of every step                        *)

OrchInit ==
    /\ orch_pc = "loop"
    /\ skip_steps \in SUBSET (1..7)
    /\ step_pos = 0
    /\ started = <<>>
    /\ outcomes = <<>>
    /\ results = [status |-> "", etapas |-> {}]
    /\ results_file = <<>>
    /\ orch_result = ""

OrchNext == OrchSkip \/ OrchRunStep \/ OrchFinish

InitOrch == OrchInit /\ SplitIdle /\ CodecIdle /\ ScriptIdle /\ ParseIdle /\ SubIdle
                /\ AllocIdle /\ PromptIdle /\ ImgIdle

SpecOrch == InitOrch /\ [][OrchNext]_vars

----------------------------------------------------------------------------
(* Specification SpecImages: each image stage run on its own, on every    *)
(* list of up to MaxCenas scenes and in every environment                 *)

\* the scene numbers stage 4 writes: 1, 2, ... in list order
CenasOf(n) == [k \in 1..n |-> k]

ImgInit ==
    /\ img_pc = "start"
    /\ img_variant \in {"lowmem", "standard"}
    /\ cuda_available \in BOOLEAN
    /\ model_loads \in BOOLEAN
    /\ prompts_readable \in BOOLEAN
    /\ cenas \in { CenasOf(n) : n \in 1..MaxCenas }
    /\ scene_outcomes = <<>>
    /\ attempted = <<>>
    /\ error_log = <<>>
    /\ images = {}
    /\ img_exit = ""

ImgNext ==
    \/ ImgStartLowmem
    \/ ImgStartStandard
    \/ ImgSceneLowmem
    \/ ImgSceneStandard
    \/ ImgFinish

InitImages == ImgInit /\ SplitIdle /\ CodecIdle /\ ScriptIdle /\ ParseIdle /\ SubIdle
                /\ AllocIdle /\ PromptIdle /\ OrchIdle

SpecImages == InitImages /\ [][ImgNext]_vars

----------------------------------------------------------------------------
(* Specification SpecPipeline: execute_pipeline with the subprocess of the *)
(* image step modelled by the low-memory image stage; the first four      *)
(* steps are skipped in every combination                                  *)

PipelineInit ==
    /\ orch_pc = "loop"
    /\ skip_steps \in SUBSET (1..4)
    /\ step_pos = 0
    /\ started = <<>>
    /\ outcomes = <<>>
    /\ results = [status |-> "", etapas |-> {}]
    /\ results_file = <<>>
    /\ orch_result = ""
    /\ img_pc = "idle"
    /\ img_variant = "lowmem"
    /\ cuda_available \in BOOLEAN
    /\ model_loads \in BOOLEAN
    /\ prompts_readable \in BOOLEAN
    /\ cenas \in { CenasOf(n) : n \in 1..MaxCenas }
    /\ scene_outcomes = <<>>
    /\ attempted = <<>>
    /\ error_log = <<>>
    /\ images = {}
    /\ img_exit = ""

\* the entry of STEPS run_step is about to run is the image step
AtImageStep ==
    /\ orch_pc = "loop"
    /\ step_pos < Len(STEPS)
    /\ STEPS[step_pos + 1].script = "scripts/05_generate_images_lowmem.py"
    /\ STEPS[step_pos + 1].num \notin skip_steps

\* subprocess.run starts the image stage, which then runs by its own
\* actions until it exits or the time limit ends it
PipeLaunchImages ==
    /\ AtImageStep
    /\ img_pc = "idle"
    /\ img_pc' = "start"
    /\ UNCHANGED <<img_variant, cuda_available, model_loads, prompts_readable,
                   cenas, scene_outcomes, attempted, error_log, images, img_exit>>
    /\ UNCHANGED orchVars
    /\ UNCHANGED <<splitVars, codecVars, script, parseVars, subVars, out_files,
                   allocVars, promptVars>>

\* result.returncode of the image stage: 0 is a success for run_step
PipeImagesExit ==
    /\ AtImageStep
    /\ img_pc = "exited"
    /\ RunStep(IF img_exit = "0" THEN "ok" ELSE "nonzero")
    /\ img_pc' = "idle"
    /\ UNCHANGED <<img_variant, cuda_available, model_loads, prompts_readable,
                   cenas, scene_outcomes, attempted, error_log, images, img_exit>>

\* subprocess.TimeoutExpired: the image stage is killed after 3600 s
PipeImagesTimeout ==
    /\ AtImageStep
    /\ img_pc \in {"start", "loop"}
    /\ RunStep("timeout")
    /\ img_pc' = "killed"
    /\ UNCHANGED <<img_variant, cuda_available, model_loads, prompts_readable,
                   cenas, scene_outcomes, attempted, error_log, images, img_exit>>

\* every other step
PipeRunOther ==
    /\ ~AtImageStep
    /\ OrchRunStep

PipelineNext ==
    \/ OrchSkip
    \/ PipeRunOther
    \/ PipeLaunchImages
    \/ ImgStartLowmem
    \/ ImgSceneLowmem
    \/ ImgFinish
    \/ PipeImagesExit
    \/ PipeImagesTimeout
    \/ OrchFinish

InitPipeline == PipelineInit /\ SplitIdle /\ CodecIdle /\ ScriptIdle /\ ParseIdle
                  /\ SubIdle /\ AllocIdle /\ PromptIdle

SpecPipeline == InitPipeline /\ [][PipelineNext]_vars

----------------------------------------------------------------------------
(* Specification SpecStages: the two stages that parse script.md,          *)
(* create_subtitles and generate_image_prompts, run on the same script     *)

\* a heading whose index is no numeral, and one whose end numeral is absent
BadIndexHeading == CenaPrefix \o <<"X", " ", "(", "0", "-", "5", "s", ")">>
BadEndHeading == CenaPrefix \o <<"2", " ", "(", "5", "-", "s", ")">>

\* a first scene, a second one, a scene of no length (5-5s) and one that
\* ends before it starts (12-5s)
StageHeadingFields == { <<1, 0, 5>>, <<2, 5, 12>>, <<2, 5, 5>>, <<2, 12, 5>> }

StageLabels == <<NarracaoLine(<<SP, "a", SP, "b">>), VisualLine(<<SP, "v">>)>>

\* scene blocks: headed well, headed badly, not headed at all
StageBlocks ==
    { <<Heading(f[1], f[2], f[3])>> \o StageLabels : f \in StageHeadingFields }
        \cup { <<BadIndexHeading>> \o StageLabels, <<BadEndHeading>> \o StageLabels,
               StageLabels }

StageScripts == { Concat(bs) : bs \in SeqsUpTo(StageBlocks, MaxStageBlocks) }

\* durations get_audio_duration may return (60.0 is its fallback)
StageDurations == { Rat(3, 2), Rat(10, 1), Rat(60, 1) }

StagesInit ==
    /\ script \in StageScripts
    /\ sub_pc = "start"
    /\ scenes = <<>>
    /\ sub_i = 0
    /\ srt_content = <<>>
    /\ vtt_content = <<>>
    /\ out_files = <<>>
    /\ prompts_pc = "start"
    /\ audio_exists \in BOOLEAN
    /\ optimized_prompts = <<>>
    /\ audio_duration \in StageDurations
    /\ original_scenes = <<>>
    /\ target_count = 0
    /\ optimal_scenes = 0
    /\ alloc_pc = "idle"
    /\ new_scenes = <<>>
    /\ same_list = FALSE

StagesNext ==
    \/ SubStart \/ SubScene \/ SubSave
    \/ PromptsStart \/ PromptsRedistribute \/ PromptsScene \/ PromptsSave

InitStages == StagesInit /\ SplitIdle /\ CodecIdle /\ ParseIdle /\ OrchIdle
                  /\ ImgIdle

SpecStages == InitStages /\ [][StagesNext]_vars

----------------------------------------------------------------------------
\* Reading a clock string back, independently of how it was written: the
\* last 10 characters are :MM:SS<sep>mmm, all before them is the hour field
ClockHourField(c) == SubSeq(c, 1, Len(c) - 10)
ClockMinField(c) == SubSeq(c, Len(c) - 8, Len(c) - 7)
ClockSecField(c) == SubSeq(c, Len(c) - 5, Len(c) - 4)
ClockMsField(c) == SubSeq(c, Len(c) - 2, Len(c))
ClockSep(c) == c[Len(c) - 3]

AllDigits(ds) == \A k \in 1..Len(ds) : IsDigit(ds[k])

\* HH:MM:SS<sep>mmm with digit fields, HH of two or more digits and no
\* padding beyond two
ClockShape(c, sep) ==
    /\ Len(c) >= 12
    /\ c[Len(c) - 9] = ":" /\ c[Len(c) - 6] = ":" /\ ClockSep(c) = sep
    /\ AllDigits(ClockHourField(c)) /\ AllDigits(ClockMinField(c))
    /\ AllDigits(ClockSecField(c)) /\ AllDigits(ClockMsField(c))
    /\ Len(ClockHourField(c)) > 2 => ClockHourField(c)[1] # "0"

\* the instant a clock string denotes, in milliseconds
ClockMs(c) ==
    ((IntOf(ClockHourField(c)) * 60 + IntOf(ClockMinField(c))) * 60
        + IntOf(ClockSecField(c))) * 1000 + IntOf(ClockMsField(c))

\* c is the clock reading of q truncated to the millisecond
ClockDenotes(c, q, sep) ==
    /\ ClockShape(c, sep)
    /\ IntOf(ClockMinField(c)) < 60
    /\ IntOf(ClockSecField(c)) < 60
    /\ ClockMs(c) \div 1000 = q.n \div q.d
    /\ IntOf(ClockMsField(c)) * q.d <= 1000 * (q.n % q.d)
    /\ 1000 * (q.n % q.d) < (IntOf(ClockMsField(c)) + 1) * q.d

\* C9: for seconds >= 0 both codecs return HH:MM:SS<sep>mmm (sep "," for
\* SRT, "." for VTT), hours unwrapped and of at least two digits, minutes
\* and seconds two digits, milliseconds three digits and truncated;
\* 3661.5 gives 01:01:01,500 and 01:01:01.500
C9_ClockFormat ==
    /\ srt_time # <<>> => ClockDenotes(srt_time, seconds, ",")
    /\ vtt_time # <<>> => ClockDenotes(vtt_time, seconds, ".")
    /\ (srt_time # <<>> /\ seconds = Rat(7323, 2)) =>
           srt_time = <<"0", "1", ":", "0", "1", ":", "0", "1", ",", "5", "0", "0">>
    /\ (vtt_time # <<>> /\ seconds = Rat(7323, 2)) =>
           vtt_time = <<"0", "1", ":", "0", "1", ":", "0", "1", ".", "5", "0", "0">>

\* both codecs have formatted a value past 100 hours whose fraction 2/3
\* truncates to 666
C9_Witness ==
    /\ seconds = Rat(363661 * 3 + 2, 3)
    /\ srt_time = <<"1", "0", "1", ":", "0", "1", ":", "0", "1", ",", "6", "6", "6">>
    /\ vtt_time = <<"1", "0", "1", ":", "0", "1", ":", "0", "1", ".", "6", "6", "6">>

----------------------------------------------------------------------------
\* C2: with target_count = len(original_scenes) the call returns the
\* original list itself: same scenes, same order, same timing strings, no
\* field recomputed or added
C2_Identity ==
    (alloc_pc = "returned" /\ target_count = Len(original_scenes)) =>
        /\ same_list
        /\ new_scenes = original_scenes
        /\ \A i \in 1..Len(new_scenes) :
               /\ DOMAIN new_scenes[i] = {"numero", "timing", "naracao", "visual"}
               /\ new_scenes[i].timing = original_scenes[i].timing

\* three original scenes, target 3, a duration their timings do not fit
C2_Witness ==
    /\ alloc_pc = "returned"
    /\ Len(original_scenes) = 3 /\ target_count = 3
    /\ audio_duration = Rat(100, 3)
    /\ new_scenes = OriginalOf(3)

\* the two numbers of a timing string "<start>-<end>s"
DashAt(t) == KthOf({ p \in 1..Len(t) : t[p] = "-" }, 1)
TimingStart(t) == IntOf(SubSeq(t, 1, DashAt(t) - 1))
TimingEnd(t) == IntOf(SubSeq(t, DashAt(t) + 1, Len(t) - 1))

\* the case C3 and C4 are about
Redistributed ==
    /\ alloc_pc = "returned"
    /\ target_count # Len(original_scenes)
    /\ original_scenes # <<>>
    /\ target_count > 0
    /\ audio_duration.n > 0

\* C3: with k # len(original), original non-empty, k > 0 and D > 0 the
\* call returns exactly k scenes; the first span starts at 0, every scene
\* starts where the previous one ends, the last scene ends at or before D
C3_Contiguous ==
    Redistributed =>
        /\ Len(new_scenes) = target_count
        /\ ~same_list
        /\ \A i \in 1..Len(new_scenes) :
               /\ new_scenes[i].timing[Len(new_scenes[i].timing)] = "s"
               /\ AllDigits(SubSeq(new_scenes[i].timing, 1, DashAt(new_scenes[i].timing) - 1))
               /\ AllDigits(SubSeq(new_scenes[i].timing, DashAt(new_scenes[i].timing) + 1,
                                   Len(new_scenes[i].timing) - 1))
        /\ TimingStart(new_scenes[1].timing) = 0
        /\ \A i \in 2..Len(new_scenes) :
               TimingStart(new_scenes[i].timing) = TimingEnd(new_scenes[i - 1].timing)
        /\ TimingEnd(new_scenes[Len(new_scenes)].timing) * audio_duration.d
               <= audio_duration.n

\* three originals spread over four scenes of 7.5 s whose last one ends at
\* 7 < 7.5
C3_Witness ==
    /\ Redistributed
    /\ Len(original_scenes) = 3 /\ target_count = 4
    /\ audio_duration = Rat(15, 2)
    /\ TimingEnd(new_scenes[4].timing) = 7
    /\ TimingStart(new_scenes[3].timing) = 3

\* C4: in the non-identity case new scene i (0-based) copies narration and
\* visual text from original[min(i, len(original)-1)]: the slots past the
\* end reuse the last original scene, and with k < len(original) the
\* trailing originals are dropped
C4_TextSource ==
    Redistributed =>
        LET m == Len(original_scenes) IN
        /\ \A i \in 1..Len(new_scenes) :
               /\ i <= m => /\ new_scenes[i].naracao = TextOf("n", i)
                             /\ new_scenes[i].visual = TextOf("v", i)
               /\ i > m  => /\ new_scenes[i].naracao = TextOf("n", m)
                             /\ new_scenes[i].visual = TextOf("v", m)
        /\ \A j \in (target_count + 1)..m :
               \A i \in 1..Len(new_scenes) :
                   new_scenes[i].naracao # original_scenes[j].naracao

\* two originals spread over four scenes: slots 3 and 4 repeat original 2
C4_Witness ==
    /\ Redistributed
    /\ Len(original_scenes) = 2 /\ target_count = 4
    /\ new_scenes[3].visual = original_scenes[2].visual
    /\ new_scenes[4].naracao = original_scenes[2].naracao

\* r = max(least, floor(q / per)) for a positive q, without dividing
IsMaxOfFloor(r, least, q, per) ==
    \/ r = least /\ q.n < per * (least + 1) * q.d
    \/ r > least /\ per * r * q.d <= q.n /\ q.n < per * (r + 1) * q.d

\* C5: calculate_optimal_scenes(d) is 2 for d <= 30, max(3, floor(d/15))
\* for 30 < d <= 60, max(5, floor(d/12)) for 60 < d <= 120 and
\* max(8, floor(d/10)) above; 30 gives 2, just above 30 gives 3, 125 gives 12
C5_OptimalScenes ==
    optimal_scenes # 0 =>
        LET d == audio_duration
            r == optimal_scenes
        IN  /\ d.n <= 30 * d.d => r = 2
            /\ (30 * d.d < d.n /\ d.n <= 60 * d.d) => IsMaxOfFloor(r, 3, d, 15)
            /\ (60 * d.d < d.n /\ d.n <= 120 * d.d) => IsMaxOfFloor(r, 5, d, 12)
            /\ 120 * d.d < d.n => IsMaxOfFloor(r, 8, d, 10)
            /\ d = Rat(30, 1) => r = 2
            /\ d = Rat(300001, 10000) => r = 3
            /\ d = Rat(125, 1) => r = 12

\* the policy has been applied to 30.0001 seconds
C5_Witness ==
    /\ audio_duration = Rat(300001, 10000)
    /\ optimal_scenes = 3

----------------------------------------------------------------------------
(* Reading the subtitle documents back: an SRT cue is four lines (number,  *)
(* time range, text, blank), a VTT cue three (time range, text, blank)     *)
(* after the two header lines                                              *)

SrtCueCount(doc) == Len(doc) \div 4
SrtNumberLine(doc, k) == doc[4 * (k - 1) + 1]
SrtTimeLine(doc, k) == doc[4 * (k - 1) + 2]
SrtTextLine(doc, k) == doc[4 * (k - 1) + 3]

VttCueCount(doc) == (Len(doc) - 2) \div 3
VttTimeLine(doc, k) == doc[2 + 3 * (k - 1) + 1]
VttTextLine(doc, k) == doc[2 + 3 * (k - 1) + 2]

ArrowAt(l) == KthOf({ p \in 1..Len(l) : LitAt(l, p, Arrow) }, 1)
RangeStart(l) == SubSeq(l, 1, ArrowAt(l) - 1)
RangeEnd(l) == SubSeq(l, ArrowAt(l) + Len(Arrow), Len(l))

\* the lines the narration of scene m splits into
SceneLines(m) == split_text_into_lines(scenes[m].naracao, DefaultMaxChars)

C8_SequenceNumbers ==
    sub_pc = "done" =>
        LET doc == out_files["subtitles.srt"] IN
        /\ SrtCueCount(doc) >= 1 => IntOf(SrtNumberLine(doc, 1)) = 1
        /\ \A k \in 1..(SrtCueCount(doc) - 1) :
               IntOf(SrtNumberLine(doc, k)) < IntOf(SrtNumberLine(doc, k + 1))

\* the cue texts of a document, in order
SrtTexts(doc) == [k \in 1..SrtCueCount(doc) |-> SrtTextLine(doc, k)]
VttTexts(doc) == [k \in 1..VttCueCount(doc) |-> VttTextLine(doc, k)]

\* the lines of the first m scenes, a scene without any word giving none
LinesUpTo(m) ==
    Concat([k \in 1..m |->
        IF str_split(scenes[k].naracao) = <<>> THEN <<>> ELSE SceneLines(k)])

\* C10: a scene whose narration is empty or blank adds no cue to either
\* document and raises nothing (the stage fails only on an empty scene
\* list); the cues of the other scenes are all there, in order
C10_EmptyNarration ==
    /\ sub_pc = "failed" => scenes = <<>>
    /\ sub_pc \in {"loop", "done"} =>
           /\ Len(srt_content) = 4 * SrtCueCount(srt_content)
           /\ Len(vtt_content) = 2 + 3 * VttCueCount(vtt_content)
           /\ SrtTexts(srt_content) = LinesUpTo(sub_i)
           /\ VttTexts(vtt_content) = LinesUpTo(sub_i)

\* a finished run whose first scene has a narration line of blanks only and
\* whose second scene gave the two cues of both documents
C10_Witness ==
    /\ sub_pc = "done"
    /\ Len(scenes) = 2
    /\ script[2] = NarracaoLine(<<SP, SP>>)
    /\ scenes[1].naracao = <<>>
    /\ Len(SceneLines(2)) = 2
    /\ SrtCueCount(out_files["subtitles.srt"]) = 2
    /\ VttCueCount(out_files["subtitles.vtt"]) = 2

----------------------------------------------------------------------------
\* C6: every line returned by split_text_into_lines is at most max_chars
\* long, unless it is exactly one word that is itself longer than max_chars
IsSingleWord(l) == l # <<>> /\ \A k \in 1..Len(l) : l[k] # SP

C6_LineWidth ==
    split_pc = "done" =>
        \A k \in 1..Len(split_lines) :
            \/ Len(split_lines[k]) <= max_chars
            \/ IsSingleWord(split_lines[k])

\* a call that returned both an over-long single word and a packed line
C6_Witness ==
    /\ split_pc = "done"
    /\ \E k \in 1..Len(split_lines) :
           Len(split_lines[k]) > max_chars /\ IsSingleWord(split_lines[k])
    /\ \E k \in 1..Len(split_lines) :
           Len(split_lines[k]) = max_chars /\ ~IsSingleWord(split_lines[k])

----------------------------------------------------------------------------
\* a script none of whose lines holds the scene heading prefix
NoHeadingLine ==
    \A k \in 1..Len(script) :
        \A p \in 1..Len(script[k]) : ~LitAt(script[k], p, CenaPrefix)

\* C11: on a script with no scene heading the parsers return an empty list
\* and both callers, create_subtitles and generate_image_prompts, end with
\* an error and write none of subtitles.srt, subtitles.vtt,
\* image_prompts.json
C11_NoSceneIsError ==
    NoHeadingLine =>
        /\ scenes = <<>> /\ original_scenes = <<>>
        /\ sub_pc \in {"start", "failed"}
        /\ prompts_pc \in {"start", "failed"}
        /\ DOMAIN out_files = {}

\* both stages have ended in error on a script of labeled lines only, the
\* audio being there
C11_Witness ==
    /\ NoHeadingLine
    /\ Len(script) = 4
    /\ audio_exists
    /\ sub_pc = "failed"
    /\ prompts_pc = "failed"

----------------------------------------------------------------------------
\* C12: redistribute_scenes rejects a degenerate request: with
\* target_count <= 0 or audio_duration <= 0 the call fails with an error
\* and returns no scene list
C12_RejectsDegenerate ==
    (target_count <= 0 \/ audio_duration.n <= 0) => alloc_pc # "returned"

\* C13: format_srt_time and format_vtt_time reject negative seconds: no
\* string is ever returned for seconds < 0
C13_RejectsNegative ==
    seconds.n < 0 => (srt_time = <<>> /\ vtt_time = <<>>)

----------------------------------------------------------------------------
\* C14: a scene whose heading gives end <= start is rejected: subtitle
\* generation does not complete on it, and no cue is written whose end
\* time is at or before its start time
C14_InvalidTiming ==
    /\ (\E k \in 1..Len(scenes) : scenes[k].end_seconds <= scenes[k].start_seconds)
           => sub_pc # "done"
    /\ \A k \in 1..SrtCueCount(srt_content) :
           ClockMs(RangeStart(SrtTimeLine(srt_content, k)))
               < ClockMs(RangeEnd(SrtTimeLine(srt_content, k)))

\* a script with a heading line whose index or end numeral is missing
HasMalformedHeading ==
    \E k \in 1..Len(script) : script[k] \in {BadIndexHeading, BadEndHeading}

\* C15: a heading line whose index or start/end numerals are absent or
\* non-numeric makes parsing fail, so that create_subtitles aborts; the
\* line is never skipped while the other scenes are processed
C15_MalformedHeadingAborts ==
    HasMalformedHeading => sub_pc \in {"start", "failed"}

----------------------------------------------------------------------------
\* a time-range line  <clock> --> <clock>  with the given decimal separator
IsRangeLine(l, sep) ==
    /\ Cardinality({ p \in 1..Len(l) : LitAt(l, p, Arrow) }) = 1
    /\ ClockShape(RangeStart(l), sep)
    /\ ClockShape(RangeEnd(l), sep)

\* C16: the SRT document is, per cue, a numeric header line, a
\* start --> end line with comma-decimal times, the cue text and a blank
\* line; the VTT document is the line WEBVTT and a blank line, then per cue
\* a start --> end line with dot-decimal times, the cue text and a blank
\* line; both hold the same cues in the same order with the same start and
\* end instants
C16_DocumentFormats ==
    sub_pc \in {"loop", "done"} =>
        LET n == SrtCueCount(srt_content) IN
        /\ Len(srt_content) = 4 * n
        /\ Len(vtt_content) = 2 + 3 * n
        /\ vtt_content[1] = WebVtt /\ vtt_content[2] = <<>>
        /\ \A k \in 1..n :
               LET srt == SrtTimeLine(srt_content, k)
                   vtt == VttTimeLine(vtt_content, k)
               IN  /\ SrtNumberLine(srt_content, k) # <<>>
                   /\ AllDigits(SrtNumberLine(srt_content, k))
                   /\ IsRangeLine(srt, ",")
                   /\ IsRangeLine(vtt, ".")
                   /\ SrtTextLine(srt_content, k) # <<>>
                   /\ srt_content[4 * k] = <<>>
                   /\ vtt_content[2 + 3 * k] = <<>>
                   /\ VttTextLine(vtt_content, k) = SrtTextLine(srt_content, k)
                   /\ ClockMs(RangeStart(vtt)) = ClockMs(RangeStart(srt))
                   /\ ClockMs(RangeEnd(vtt)) = ClockMs(RangeEnd(srt))
        /\ sub_pc = "done" =>
               /\ out_files["subtitles.srt"] = srt_content
               /\ out_files["subtitles.vtt"] = vtt_content

\* both documents saved with the four cues of two scenes
C16_Witness ==
    /\ sub_pc = "done"
    /\ Len(scenes) = 2
    /\ Len(SceneLines(1)) = 1 /\ Len(SceneLines(2)) = 3
    /\ SrtCueCount(out_files["subtitles.srt"]) = 4
    /\ VttCueCount(out_files["subtitles.vtt"]) = 4

----------------------------------------------------------------------------
\* the scripts launched so far, in order
StartedScripts == [k \in 1..Len(started) |-> started[k].script]

\* C17: when no step is skipped and every step succeeds, execute_pipeline
\* runs the 7 stages (plan, script, voice, image prompts, images,
\* subtitles, video composition) each exactly once and in that order
\* before it reports success
C17_AllSevenStages ==
    (orch_pc = "returned" /\ orch_result = "True" /\ skip_steps = {}) =>
        /\ Len(started) = 7
        /\ StartedScripts[1] = "scripts/01_plan.py"
        /\ StartedScripts[2] = "scripts/02_script.py"
        /\ StartedScripts[3] = "scripts/03_voice.py"
        /\ StartedScripts[4] = "scripts/04_image_prompts.py"
        /\ StartedScripts[5] \in {"scripts/05_generate_images.py",
                                  "scripts/05_generate_images_lowmem.py"}
        /\ StartedScripts[6] = "scripts/06_subtitles.py"
        /\ StartedScripts[7] = "scripts/07_compose_video.py"

\* C18: as soon as a step that is not skipped exits non-zero, times out or
\* raises, execute_pipeline starts no later step, sets status "erro",
\* saves the results and returns False
C18_FailureStops ==
    /\ Len(outcomes) = Len(started)
    /\ \A k \in 1..Len(outcomes) :
           outcomes[k] # "ok" =>
               /\ k = Len(outcomes)
               /\ orch_pc = "returned"
               /\ orch_result = "False"
               /\ results.status = "erro"
               /\ results_file = <<results>>
               /\ started[k].script \notin
                      { STEPS[j].script : j \in { i \in 1..Len(STEPS) :
                                                     STEPS[i].num \in skip_steps } }

\* the pipeline stopped by a timeout of the third step, the second skipped
C18_Witness ==
    /\ skip_steps = {2}
    /\ outcomes = <<"ok", "timeout">>
    /\ StartedScripts = <<"scripts/01_plan.py", "scripts/03_voice.py">>
    /\ orch_pc = "returned"
    /\ results.etapas = {1}

----------------------------------------------------------------------------
\* " ".join(ls)
JoinLines(ls) ==
    Concat([k \in 1..Len(ls) |-> IF k = 1 THEN ls[k] ELSE <<SP>> \o ls[k]])

\* a line of words separated by single spaces
IsPackedLine(l) ==
    /\ l # <<>>
    /\ l[1] # SP /\ l[Len(l)] # SP
    /\ \A p \in 1..(Len(l) - 1) : ~(l[p] = SP /\ l[p + 1] = SP)

\* the first word of a line
FirstWord(l) == str_split(l)[1]

\* C19: split_text_into_lines is a greedy, lossless packing: the returned
\* lines joined with single spaces are exactly the whitespace-separated
\* words of the input in their order, no line is empty, and a line is
\* closed before word w only when appending a space and w would exceed
\* max_chars
C19_GreedyLossless ==
    split_pc = "done" =>
        /\ \A k \in 1..Len(split_lines) : IsPackedLine(split_lines[k])
        /\ str_split(JoinLines(split_lines)) = str_split(text)
        /\ Len(JoinLines(split_lines)) =
               Len(SelectSeq(text, LAMBDA c : c # SP))
                   + Max(Len(str_split(text)) - 1, 0)
        /\ \A k \in 2..Len(split_lines) :
               Len(split_lines[k - 1]) + 1 + Len(FirstWord(split_lines[k])) > max_chars

\* a text with a leading blank and a double blank packed into a line of
\* two words followed by a line of one
C19_Witness ==
    /\ split_pc = "done"
    /\ text = <<SP, "a", SP, SP, "b", SP, "a", "b">>
    /\ max_chars = 4
    /\ split_lines = << <<"a", SP, "b">>, <<"a", "b">> >>

----------------------------------------------------------------------------
\* the positions of the heading lines of the script, and the lines that
\* belong to the k-th scene: those after its heading and before the next
HeadingPositions == { p \in 1..Len(script) : script[p] \in WellFormedHeadings }

SceneBody(k) ==
    LET first == KthOf(HeadingPositions, k)
        stop == IF k < Cardinality(HeadingPositions)
                THEN KthOf(HeadingPositions, k + 1) ELSE Len(script) + 1
    IN  (first + 1)..(stop - 1)

\* the field text the labeled lines of the scripts carry
LabeledText(line) ==
    IF line = NarracaoLine(<<SP, "a", SP, "b">>) THEN <<"a", SP, "b">>
    ELSE IF line = VisualLine(<<SP, "v">>) THEN <<"v">>
    ELSE <<>>

\* the text of the last line of scene k that bears the label, "" without one
LastLabeled(k, label) ==
    LET ps == { p \in SceneBody(k) : startswith(script[p], label) }
    IN  IF ps = {} THEN <<>> ELSE LabeledText(script[KthOf(ps, Cardinality(ps))])

\* C20: a narration-labeled or visual-labeled line sets the field of the
\* most recently opened scene only, a repeated label overwriting the
\* earlier value of that scene; labeled lines before the first heading and
\* lines matching no pattern change no scene
C20_LabelsAttach ==
    LET n == Cardinality(HeadingPositions) IN
    /\ "timing" \in parse_pc =>
           /\ Len(timing_scenes) = n
           /\ \A k \in 1..n : timing_scenes[k].naracao = LastLabeled(k, NarracaoLabel)
    /\ "visuals" \in parse_pc =>
           /\ Len(visuals) = n
           /\ \A k \in 1..n :
                  /\ visuals[k].naracao = LastLabeled(k, NarracaoLabel)
                  /\ visuals[k].visual = LastLabeled(k, VisualLabel)

\* a narration line before the first heading, then one scene whose
\* narration was set and then overwritten by a line of blanks
C20_Witness ==
    /\ parse_pc = {"timing", "visuals"}
    /\ Len(script) = 4
    /\ script[1] = NarracaoLine(<<SP, "a", SP, "b">>)
    /\ script[2] \in WellFormedHeadings
    /\ script[3] = script[1]
    /\ script[4] = NarracaoLine(<<SP, SP>>)
    /\ Len(timing_scenes) = 1 /\ timing_scenes[1].naracao = <<>>
    /\ Len(visuals) = 1 /\ visuals[1].naracao = <<>>

----------------------------------------------------------------------------
\* the numbers written above the cues of the scene the loop has just
\* processed, in order
LastSceneCueNumbers ==
    LET n == Len(SceneLines(sub_i))
        k0 == SrtCueCount(srt_content) - n
    IN  [j \in 1..n |-> IntOf(SrtNumberLine(srt_content, k0 + j))]

\* the subtitle loop has just written the cues of scene sub_i
SceneJustWritten ==
    /\ sub_pc = "loop" /\ sub_i >= 1
    /\ str_split(scenes[sub_i].naracao) # <<>>

\* C21 as stated: the cue number of line j (0-based) of a scene is
\* sceneIndex * 10 + j with sceneIndex the numeral of the scene's heading
C21_CueNumberByHeading ==
    SceneJustWritten =>
        \A j \in 1..Len(LastSceneCueNumbers) :
            LastSceneCueNumbers[j] = scenes[sub_i].numero * 10 + (j - 1)

\* C21 amended: the cue number of line j (0-based) of a scene is
\* p * 10 + j with p the 1-based position of the scene in the parsed list,
\* whatever numeral its heading bears
C21_CueNumberByPosition ==
    SceneJustWritten =>
        /\ Len(LastSceneCueNumbers) = Len(SceneLines(sub_i))
        /\ \A j \in 1..Len(LastSceneCueNumbers) :
               LastSceneCueNumbers[j] = sub_i * 10 + (j - 1)

\* the first scene of the script bears the numeral 2 and its three lines
\* were numbered 10, 11, 12
C21_Witness ==
    /\ SceneJustWritten
    /\ sub_i = 1
    /\ scenes[1].numero = 2
    /\ LastSceneCueNumbers = <<10, 11, 12>>

----------------------------------------------------------------------------
\* the heading of the scripts whose numeral 3 is followed by a colon
ColonHeading == CenaPrefix \o <<"3", ":", " ", "(", "1", "2", "-", "2", "0", "s", ")">>

\* C22: a heading with a non-digit character next to its numeral (a
\* trailing ':' or '.') still opens a scene with the right index in every
\* parser that reads the script
C22_IndexTolerant ==
    (\E p \in 1..Len(script) : script[p] = ColonHeading) =>
        /\ "timing" \in parse_pc =>
               \E k \in 1..Len(timing_scenes) : timing_scenes[k].numero = 3
        /\ "visuals" \in parse_pc =>
               \E k \in 1..Len(visuals) : visuals[k].numero = 3

----------------------------------------------------------------------------
\* C23: every scene redistribute_scenes builds for the target count
\* calculate_optimal_scenes returned and an audio duration > 0 has
\* end > start: no span of zero length
C23_PositiveSpans ==
    (prompts_pc \in {"loop", "done"} /\ ~same_list) =>
        \A i \in 1..Len(new_scenes) :
            TimingEnd(new_scenes[i].timing) > TimingStart(new_scenes[i].timing)

\* C29: every scene entry written to image_prompts.json has duracao equal
\* to the length end - start of its own timing span, whether the scenes
\* were redistributed or the original ones kept
C29_DuracaoIsSpanLength ==
    prompts_pc = "done" =>
        LET saved == out_files["image_prompts.json"].cenas IN
        \A i \in 1..Len(saved) :
            saved[i].duracao = TimingEnd(saved[i].timing) - TimingStart(saved[i].timing)

----------------------------------------------------------------------------
----------------------------------------------------------------------------
\* C26: the command built for the video-composition step carries the
\* output directory with --project, the only directory option
\* 07_compose_video.py accepts; every other step gets it with --output
C26_ComposeGetsProject ==
    \A k \in 1..Len(started) :
        started[k].flag = IF started[k].script = "scripts/07_compose_video.py"
                          THEN "--project" ELSE "--output"

----------------------------------------------------------------------------
\* the entries of STEPS that execute_pipeline does not skip
NonSkipped == { i \in 1..Len(STEPS) : STEPS[i].num \notin skip_steps }

\* the numbers of the steps that were started and exited with status 0
RunAndSucceeded ==
    { STEPS[i].num : i \in { j \in 1..Len(STEPS) :
          \E k \in 1..Len(started) : /\ started[k].script = STEPS[j].script
                                      /\ outcomes[k] = "ok" } }

\* C27: when execute_pipeline returns, the status is "sucesso" and the
\* return value True exactly when every step that is not skipped exited
\* with status 0; etapas holds exactly the numbers of the steps that were
\* run and succeeded (no skipped step, not the failed step, no step after
\* it); the results file was saved exactly once
C27_ResultsFaithful ==
    orch_pc = "returned" =>
        /\ results.status \in {"sucesso", "erro"}
        /\ results.status = "sucesso" <=> orch_result = "True"
        /\ orch_result = "True" <=>
               \A i \in NonSkipped :
                   \E k \in 1..Len(started) :
                       /\ started[k].script = STEPS[i].script
                       /\ outcomes[k] = "ok"
        /\ results.etapas = RunAndSucceeded
        /\ results.etapas \cap skip_steps = {}
        /\ \A k \in 1..Len(started) :
               outcomes[k] # "ok" =>
                   \A i \in 1..Len(STEPS) :
                       (i >= step_pos + 1) => STEPS[i].num \notin results.etapas
        /\ Len(results_file) = 1
        /\ results_file[1] = results

\* steps 1 and 4 skipped, steps 2 and 3 succeeded, step 5 exited non-zero
C27_Witness ==
    /\ orch_pc = "returned"
    /\ skip_steps = {1, 4}
    /\ outcomes = <<"ok", "ok", "nonzero">>
    /\ results = [status |-> "erro", etapas |-> {2, 3}]
    /\ Len(results_file) = 1

----------------------------------------------------------------------------
\* index, start, end and narration of a scene as each parser returns them
VoiceView(sc) == <<sc.numero, sc.start, sc.end, sc.naracao>>

VisualsView(sc) ==
    <<sc.numero, TimingStart(sc.timing), TimingEnd(sc.timing), sc.naracao>>

SubtitleView(sc) == <<sc.numero, sc.start_seconds, sc.end_seconds, sc.naracao>>

\* C30: on every script the three parsers (extract_scene_timing,
\* extract_visuals_from_script, extract_scenes_with_timing) return the same
\* number of scenes, in the same order, with the same index, start, end
\* and narration for each scene
C30_ParsersAgree ==
    parse_pc = {"timing", "visuals", "voice"} =>
        /\ Len(scenes_data) = Len(visuals)
        /\ Len(scenes_data) = Len(timing_scenes)
        /\ \A k \in 1..Len(scenes_data) :
               /\ VoiceView(scenes_data[k]) = VisualsView(visuals[k])
               /\ VoiceView(scenes_data[k]) = SubtitleView(timing_scenes[k])

\* two scenes, the second without narration, after a colon heading and a
\* narration line no scene owns
C30_Witness ==
    /\ parse_pc = {"timing", "visuals", "voice"}
    /\ Len(script) = MaxScriptLines
    /\ script[1] = NarracaoLine(<<" ", "a", " ", "b">>)
    /\ script[4] = Heading(1, 0, 5)
    /\ Len(scenes_data) = 2
    /\ scenes_data[1] = [numero |-> 10, start |-> 5, end |-> 130,
                         naracao |-> <<"a", " ", "b">>]
    /\ scenes_data[2].naracao = <<>>

----------------------------------------------------------------------------
\* the stage got as far as its loop over the scenes
LoopEntered ==
    /\ prompts_readable
    /\ img_variant = "lowmem" => cuda_available /\ model_loads

\* the scene numbers of the iterations that failed, in order
FailedScenes ==
    LET failedAt == { k \in 1..Len(scene_outcomes) : SceneFailed(scene_outcomes[k]) }
    IN  [j \in 1..Cardinality(failedAt) |-> cenas[KthOf(failedAt, j)]]

----------------------------------------------------------------------------
\* C28: when the image stage the orchestrator ran wrote no image (no CUDA
\* device, image_prompts.json unreadable, or every scene failed), the
\* orchestrator records the image step as failed and does not start the
\* composition step
C28_NoImageFailsStep ==
    \A k \in 1..Len(started) :
        (started[k].script = "scripts/05_generate_images_lowmem.py" /\ images = {}) =>
            /\ outcomes[k] # "ok"
            /\ 5 \notin results.etapas
            /\ results.status = "erro"
            /\ \A j \in 1..Len(started) :
                   started[j].script # "scripts/07_compose_video.py"

====
